---- MODULE Spec2Model ----
(***************************************************************************)
(* Enemy-encounter state machine of the 2D action quiz game:               *)
(*   Player (features/player/Player.ts), CollisionSystem                   *)
(*   (core/systems/CollisionSystem.ts), GameScene (scenes/GameScene.ts,    *)
(*   the CollisionSystem based revision) and QuizScene                     *)
(*   (scenes/QuizScene.ts, the state-machine revision).                    *)
(*                                                                         *)
(* Engine behaviour the code relies on (Phaser 3):                         *)
(*   - EventEmitter.emit runs the listeners synchronously;                 *)
(*   - scene.pause() / scene.resume() act at once, scene.launch(),         *)
(*     scene.start() and scene.stop() are queued and carried out by the    *)
(*     scene manager at the start of the next frame, in queue order;       *)
(*   - a paused or stopped scene runs no clock, no tweens, no physics      *)
(*     step and receives no input;                                         *)
(*   - an arcade overlap callback needs both bodies enabled;               *)
(*   - a pointer-down first runs the handlers of the game object under the *)
(*     pointer and then, within the same event, the scene's 'pointerdown'  *)
(*     listeners; a key-down runs the listeners that were registered when  *)
(*     the dispatch began;                                                 *)
(*   - a destroyed or dispatched one-shot TimerEvent never fires (again);  *)
(*   - a group created with runChildUpdate updates its children on the     *)
(*     scene's update event before the arcade world steps; the step of an  *)
(*     enabled body first takes the body position from its game object     *)
(*     (x - originX * width, y - originY * height), clears the blocked     *)
(*     flags, moves the body by velocity * delta, and postUpdate adds the  *)
(*     body's displacement to the game object; getBounds() of a sprite is  *)
(*     computed from the game object, not from the body.                   *)
(***************************************************************************)
EXTENDS Integers, Sequences, FiniteSets, TLC

VARIABLES
  player,    \* the Player object of the running stage
  game,      \* GameScene: scene status, fields, enemies and hearts groups
  quiz,      \* QuizScene: scene status and fields
  queue,     \* scene manager's queued operations (launch / start / stop)
  emits,     \* events emitted (in order) by the step that led to this state
  last,      \* the step that led to this state, with the player it started from
  cache,     \* content of the JSON cache entry 'quiz_db'
  registry,  \* game registry entry 'selectedQuizCategory' ("" = unset)
  shown,     \* questions QuizScene has shown in this run of the stage, latest last
  qdm,       \* a QuizDataManager, with the values its calls returned
  wander,    \* an enemy under a WanderController: sprite, arcade body, controller
  patrol     \* an enemy under a PatrolController: sprite, arcade body, controller

vars == <<player, game, quiz, queue, emits, last, cache, registry, shown, qdm, wander, patrol>>

----------------------------------------------------------------------------
(* Bounds of the model *)
NumEnemies == 2      \* enemies on the map
NumHearts  == 1      \* hearts on the map
NumCoins   == 1      \* coins on the map
MaxAmount  == 2      \* heal / damage amounts tried by direct calls: 0..MaxAmount
MaxOrphans == 1      \* timer events left pending by Player.initialize
MaxTweens  == 1      \* death tweens running at once
TickMs     == 500    \* elapsed time of one scene clock step
MaxShown   == 2      \* shown questions remembered
MaxDraws   == 4      \* getRandomQuestion calls followed after one load
EnemyW     == 20     \* width of the enemy texture frame
EnemyH     == 20     \* height of the enemy texture frame
WanderDeltaMs == 1000  \* elapsed time of one frame of the wandering enemy
MaxQueue == 3            \* queued scene operations beyond which the pause keys are not followed
PatrolDeltaMs == 600      \* delta of every frame of the patrol run that starts at initialPosition
PatrolRange == 100     \* patrolRange given to the PatrolController

(* Program constants *)
PLAYER_MAX_HEALTH      == 2
PLAYER_INITIAL_HEALTH  == 1
INVINCIBILITY_DURATION == 3000
DEATH_TWEEN_DURATION   == 1500
HEAL_AMOUNT            == 1
COIN_VALUE             == 1
QUIZ_DAMAGE            == 1
ENEMY_SPEED            == 50
CHANGE_DIRECTION_MS    == 5000
WANDER_RANGE           == 100    \* bounds = Rectangle(e.x - 100, e.y - 100, 200, 100)
WANDER_BOUNDS_W        == 200
WANDER_BOUNDS_H        == 100

NORMAL     == "NORMAL"
INVINCIBLE == "INVINCIBLE"
DEAD       == "DEAD"
PlayerState == {NORMAL, INVINCIBLE, DEAD}

LOADING  == "LOADING"
QUESTION == "QUESTION"
RESULT   == "RESULT"
CLOSING  == "CLOSING"
QuizState == {LOADING, QUESTION, RESULT, CLOSING}

Enemies == 1..NumEnemies
Hearts  == 1..NumHearts
Coins   == 1..NumCoins
Amounts == 0..MaxAmount
Durations == {0, 1000, INVINCIBILITY_DURATION}   \* 0: no data.duration given

Min(a, b) == IF a < b THEN a ELSE b
Max(a, b) == IF a > b THEN a ELSE b

----------------------------------------------------------------------------
(* The question bank.  A question is {question, choices, answer, category?}; *)
(* category "" stands for a record without the category field.               *)
Questions ==
  <<[category |-> "math", choices |-> <<"3", "4">>,       answer |-> "4"],
    [category |-> "",     choices |-> <<"x", "y", "z">>,  answer |-> "x"],
    [category |-> "general", choices |-> <<>>,            answer |-> "n"]>>

QuestionIds == 1..Len(Questions)

(* Values of cache.json.get('quiz_db'): nothing, a non-array, or an array of *)
(* question records (given by their ids).                                    *)
CacheValues == {[kind |-> "missing", items |-> <<>>],
                [kind |-> "object",  items |-> <<>>],
                [kind |-> "array",   items |-> <<>>],
                [kind |-> "array",   items |-> <<1>>],
                [kind |-> "array",   items |-> <<1, 2, 3>>]}

RegistryValues == {"", "math", "history"}

Keys == {"UP", "DOWN", "1", "2", "3", "4", "ENTER", "SPACE", "ESC"}
NumKey(k) == CASE k = "1" -> 1 [] k = "2" -> 2 [] k = "3" -> 3 [] k = "4" -> 4 [] OTHER -> 0

NaN == -1            \* selectedIndex after '% 0' on an empty choice list

----------------------------------------------------------------------------
(* Construction *)

\* new Player(...): Player.ts constructor; timers and tweens live in the scene
newPlayer ==
  [health          |-> PLAYER_INITIAL_HEALTH,
   maxHealth       |-> PLAYER_MAX_HEALTH,
   state           |-> NORMAL,
   invincibleTimer |-> 0,      \* remaining ms of the pending event this.invincibleTimer refers to; 0: none pending
   orphans         |-> <<>>,   \* remaining ms of pending timer events no longer referred to, oldest first
   deathTweens     |-> <<>>,   \* remaining ms of the running death tweens
   hasBody         |-> TRUE,
   bodyEnable      |-> TRUE]

newEnemy == [exists |-> TRUE, active |-> TRUE, bodyEnable |-> TRUE]
newHeart == [active |-> TRUE, bodyEnable |-> TRUE]
newCoin  == [active |-> TRUE, bodyEnable |-> TRUE]
newKey   == [active |-> TRUE, bodyEnable |-> TRUE]

\* GameScene after init() and create()
newGame ==
  [status          |-> "running",   \* running | paused | stopped
   listening       |-> TRUE,        \* setupEventListeners done, cleanup not yet run
   hasKey          |-> FALSE,
   currentEnemy    |-> 0,           \* 0: undefined
   keyboardEnabled |-> TRUE,
   enemies         |-> [e \in Enemies |-> newEnemy],
   hearts          |-> [h \in Hearts |-> newHeart],
   coins           |-> [c \in Coins |-> newCoin],
   key             |-> newKey,      \* the one key of the map
   score           |-> 0,           \* gameUIView's score
   pauseOverlay    |-> "stopped",   \* PauseOverlayScene over this scene: stopped | running
   endScene        |-> "none"]      \* scene started in place of GameScene

\* QuizScene before its first launch (field initialisers)
newQuiz ==
  [status            |-> "stopped",  \* stopped | running
   currentState      |-> LOADING,
   selectedIndex     |-> 0,
   inputLocked       |-> FALSE,
   quizData          |-> <<>>,
   currentQuestion   |-> 0,          \* 0: undefined
   userAnswer        |-> "undefined",
   isCorrect         |-> FALSE,
   numChoiceTexts    |-> 0,          \* choiceTexts.length
   category          |-> "",
   returnSceneKey    |-> "",
   keyHandlers       |-> [k \in {} |-> ""],  \* keyCode -> registered handler
   pointerOnce       |-> FALSE,      \* input.once('pointerdown', closeQuiz) pending
   cleanupRegistered |-> FALSE]      \* events.once('shutdown', cleanup) pending

(* The running program as one value, so that handlers compose as functions *)
Here == [player |-> player, game |-> game, quiz |-> quiz, queue |-> queue, emits |-> <<>>]

\* payloads are kept as strings
BoolStr(b) == IF b THEN "true" ELSE "false"

emit(S, name, a, b) == [S EXCEPT !.emits = Append(@, [name |-> name, a |-> a, b |-> b])]

----------------------------------------------------------------------------
(* Player *)

\* transitionToState without the return on newState = current state
transitionToState_NoSameStateReturn(S, newState, data) ==
  LET p   == S.player
      old == p.state
      p1  == IF old = INVINCIBLE
               THEN [p EXCEPT !.invincibleTimer = 0, !.deathTweens = <<>>]
               ELSE p
      p2  == [p1 EXCEPT !.state = newState]
  IN CASE newState = NORMAL ->
            emit([S EXCEPT !.player = p2], "state-changed", newState, old)
       [] newState = INVINCIBLE ->
            emit([S EXCEPT !.player =
                    [p2 EXCEPT !.orphans = IF p2.invincibleTimer > 0
                                             THEN Append(@, p2.invincibleTimer) ELSE @,
                               !.invincibleTimer = IF data # 0 THEN data
                                                   ELSE INVINCIBILITY_DURATION]],
                 "state-changed", newState, old)
       [] newState = DEAD ->
            IF ~p2.hasBody THEN [S EXCEPT !.player = p2]
            ELSE emit([S EXCEPT !.player =
                         [p2 EXCEPT !.deathTweens = Append(@, DEATH_TWEEN_DURATION)]],
                      "state-changed", newState, old)

\* transitionToState that enters INVINCIBLE without starting the timer
transitionToState_NoTimer(S, newState, data) ==
  LET p   == S.player
      old == p.state
  IN IF old = newState THEN S
     ELSE
       LET p1 == IF old = INVINCIBLE
                   THEN [p EXCEPT !.invincibleTimer = 0, !.deathTweens = <<>>]
                   ELSE p
           p2 == [p1 EXCEPT !.state = newState]
       IN CASE newState = NORMAL ->
                 emit([S EXCEPT !.player = p2], "state-changed", newState, old)
            [] newState = INVINCIBLE ->
                 emit([S EXCEPT !.player = p2], "state-changed", newState, old)
            [] newState = DEAD ->
                 IF ~p2.hasBody THEN [S EXCEPT !.player = p2]
                 ELSE emit([S EXCEPT !.player =
                              [p2 EXCEPT !.deathTweens = Append(@, DEATH_TWEEN_DURATION)]],
                           "state-changed", newState, old)

\* Player.transitionToState(newState, data); data = 0 stands for no data.duration
transitionToState(S, newState, data) ==
  LET p   == S.player
      old == p.state
  IN IF old = newState THEN S
     ELSE
       LET p1 == IF old = INVINCIBLE
                   THEN [p EXCEPT !.invincibleTimer = 0, !.deathTweens = <<>>]
                   ELSE p
           p2 == [p1 EXCEPT !.state = newState]
       IN CASE newState = NORMAL ->
                 emit([S EXCEPT !.player = p2], "state-changed", newState, old)
            [] newState = INVINCIBLE ->
                 emit([S EXCEPT !.player =
                         [p2 EXCEPT !.orphans = IF p2.invincibleTimer > 0
                                                  THEN Append(@, p2.invincibleTimer) ELSE @,
                                    !.invincibleTimer = IF data # 0 THEN data
                                                        ELSE INVINCIBILITY_DURATION]],
                      "state-changed", newState, old)
            [] newState = DEAD ->
                 IF ~p2.hasBody THEN [S EXCEPT !.player = p2]
                 ELSE emit([S EXCEPT !.player =
                              [p2 EXCEPT !.deathTweens = Append(@, DEATH_TWEEN_DURATION)]],
                           "state-changed", newState, old)

\* Player.initialize()
initialize(S) == [S EXCEPT !.player.state = NORMAL]

\* heal without the upper clamp
heal_NoClamp(S, amount) ==
  [S EXCEPT !.player.health = S.player.health + amount]

\* Player.heal(amount)
heal(S, amount) ==
  [S EXCEPT !.player.health = Min(S.player.health + amount, S.player.maxHealth)]

\* damage that is refused only when DEAD
damage_DeadGuardOnly(S, amount) ==
  IF S.player.state = DEAD THEN S
  ELSE LET S1 == [S EXCEPT !.player.health = Max(S.player.health - amount, 0)]
       IN IF S1.player.health = 0 THEN transitionToState(S1, DEAD, 0) ELSE S1

\* Player.damage(amount)
damage(S, amount) ==
  IF S.player.state = DEAD \/ S.player.state = INVINCIBLE THEN S
  ELSE LET S1 == [S EXCEPT !.player.health = Max(S.player.health - amount, 0)]
       IN IF S1.player.health = 0 THEN transitionToState(S1, DEAD, 0) ELSE S1

----------------------------------------------------------------------------
(* Scene plugin calls made by GameScene and QuizScene *)

queueOp(S, op, key, data) ==
  [S EXCEPT !.queue = Append(@, [op |-> op, key |-> key, data |-> data])]

\* this.scene.pause() that leaves the scene running
scenePause_Deferred(S) == S

\* this.scene.pause() in GameScene; onScenePause is empty
scenePause(S) ==
  IF S.game.status = "running" THEN [S EXCEPT !.game.status = "paused"] ELSE S

\* GameScene.onSceneResume
onSceneResume(S) ==
  [S EXCEPT !.game.keyboardEnabled = TRUE,
            !.player.bodyEnable = IF S.player.hasBody THEN TRUE ELSE @]

\* this.scene.resume() in GameScene
sceneResume(S) ==
  IF S.game.status = "paused"
    THEN onSceneResume([S EXCEPT !.game.status = "running"])
    ELSE S

\* this.scene.start(key) in GameScene: stop this scene, start the other
sceneStart(S, key) == queueOp(queueOp(S, "stop", "GameScene", ""), "start", key, "")

\* GameScene.onEscKey
onEscKey(S) == queueOp(scenePause(S), "start", "PauseOverlayScene", "GameScene")

\* PauseOverlayScene.executeAction(actionIndex); scene.start stops the overlay itself
executeAction(S, actionIndex) ==
  CASE actionIndex = 0 ->
         queueOp(sceneResume(S), "stop", "PauseOverlayScene", "")
    [] actionIndex = 1 ->
         queueOp(queueOp(queueOp(S, "stop", "GameScene", ""),
                         "stop", "PauseOverlayScene", ""), "start", "GameScene", "")
    [] actionIndex = 2 ->
         queueOp(queueOp(queueOp(S, "stop", "GameScene", ""),
                         "stop", "PauseOverlayScene", ""), "start", "TitleScene", "")
    [] OTHER -> S

----------------------------------------------------------------------------
(* GameScene handlers *)

\* handleEnemyCollision that leaves the enemy's body enabled
handleEnemyCollision_EnemyBodyOn(S, e) ==
  IF ~S.game.enemies[e].active THEN S
  ELSE
    LET S1 == [S EXCEPT !.game.currentEnemy = e,
                        !.player.bodyEnable = IF S.player.hasBody THEN FALSE ELSE @,
                        !.game.keyboardEnabled = FALSE]
        category == IF registry # "" THEN registry ELSE "general"
    IN queueOp(scenePause(S1), "start", "QuizScene", category)

\* GameScene.handleEnemyCollision(player, enemy)
handleEnemyCollision(S, e) ==
  IF ~S.game.enemies[e].active THEN S
  ELSE
    LET S1 == [S EXCEPT !.game.currentEnemy = e,
                        !.player.bodyEnable = IF S.player.hasBody THEN FALSE ELSE @,
                        !.game.enemies[e].bodyEnable = FALSE,
                        !.game.keyboardEnabled = FALSE]
        category == IF registry # "" THEN registry ELSE "general"
    IN queueOp(scenePause(S1), "start", "QuizScene", category)

\* GameScene.handleHeartCollected(heart)
handleHeartCollected(S, h) ==
  LET S1 == heal(S, HEAL_AMOUNT)
  IN [S1 EXCEPT !.game.hearts[h] = [active |-> FALSE, bodyEnable |-> FALSE]]

\* GameScene.handleCoinCollected(coin)
handleCoinCollected(S, c) ==
  [S EXCEPT !.game.score = @ + COIN_VALUE,
            !.game.coins[c] = [active |-> FALSE, bodyEnable |-> FALSE]]

\* GameScene.handleKeyCollected(key)
handleKeyCollected(S) ==
  [S EXCEPT !.game.hasKey = TRUE,
            !.game.key = [active |-> FALSE, bodyEnable |-> FALSE]]

\* handleCastleCollision that clears the stage without looking at hasKey
handleCastleCollision_NoKeyCheck(S) == sceneStart(S, "ClearScene")

\* GameScene.handleCastleCollision(castle)
handleCastleCollision(S) ==
  IF S.game.hasKey THEN sceneStart(S, "ClearScene") ELSE S

\* handleQuizResult that deactivates the defeated enemy and leaves it, with its
\* body, in the enemies group
handleQuizResult_NoDestroy(S, isCorrect) ==
  LET ce == S.game.currentEnemy
      S1 == IF isCorrect
              THEN IF ce # 0 /\ S.game.enemies[ce].active
                     THEN [S EXCEPT !.game.enemies[ce] =
                             [exists |-> TRUE, active |-> FALSE, bodyEnable |-> TRUE]]
                     ELSE S
              ELSE
                LET D1 == damage(S, QUIZ_DAMAGE)
                    D2 == IF D1.player.state # DEAD
                            THEN transitionToState(D1, INVINCIBLE, 0) ELSE D1
                IN IF ce # 0 /\ D2.game.enemies[ce].exists
                     THEN [D2 EXCEPT !.game.enemies[ce].bodyEnable = TRUE]
                     ELSE D2
      S2 == [S1 EXCEPT !.player.bodyEnable = IF S1.player.hasBody THEN TRUE ELSE @]
      S3 == sceneResume(S2)
  IN [S3 EXCEPT !.game.currentEnemy = 0]

\* handleQuizResult that makes the player INVINCIBLE without looking at DEAD
handleQuizResult_NoDeadCheck(S, isCorrect) ==
  LET ce == S.game.currentEnemy
      S1 == IF isCorrect
              THEN IF ce # 0 /\ S.game.enemies[ce].active
                     THEN [S EXCEPT !.game.enemies[ce] =
                             [exists |-> FALSE, active |-> FALSE, bodyEnable |-> FALSE]]
                     ELSE S
              ELSE
                LET D2 == transitionToState(damage(S, QUIZ_DAMAGE), INVINCIBLE, 0)
                IN IF ce # 0 /\ D2.game.enemies[ce].exists
                     THEN [D2 EXCEPT !.game.enemies[ce].bodyEnable = TRUE]
                     ELSE D2
      S2 == [S1 EXCEPT !.player.bodyEnable = IF S1.player.hasBody THEN TRUE ELSE @]
      S3 == sceneResume(S2)
  IN [S3 EXCEPT !.game.currentEnemy = 0]

\* handleQuizResult that only damages, without the grace period
handleQuizResult_NoInvincible(S, isCorrect) ==
  LET ce == S.game.currentEnemy
      S1 == IF isCorrect
              THEN IF ce # 0 /\ S.game.enemies[ce].active
                     THEN [S EXCEPT !.game.enemies[ce] =
                             [exists |-> FALSE, active |-> FALSE, bodyEnable |-> FALSE]]
                     ELSE S
              ELSE
                LET D2 == damage(S, QUIZ_DAMAGE)
                IN IF ce # 0 /\ D2.game.enemies[ce].exists
                     THEN [D2 EXCEPT !.game.enemies[ce].bodyEnable = TRUE]
                     ELSE D2
      S2 == [S1 EXCEPT !.player.bodyEnable = IF S1.player.hasBody THEN TRUE ELSE @]
      S3 == sceneResume(S2)
  IN [S3 EXCEPT !.game.currentEnemy = 0]

\* handleQuizResult that returns early, before the resume, when the player died
handleQuizResult_NoResumeOnDeath(S, isCorrect) ==
  LET ce == S.game.currentEnemy
      S1 == IF isCorrect
              THEN IF ce # 0 /\ S.game.enemies[ce].active
                     THEN [S EXCEPT !.game.enemies[ce] =
                             [exists |-> FALSE, active |-> FALSE, bodyEnable |-> FALSE]]
                     ELSE S
              ELSE
                LET D1 == damage(S, QUIZ_DAMAGE)
                    D2 == IF D1.player.state # DEAD
                            THEN transitionToState(D1, INVINCIBLE, 0) ELSE D1
                IN IF ce # 0 /\ D2.game.enemies[ce].exists
                     THEN [D2 EXCEPT !.game.enemies[ce].bodyEnable = TRUE]
                     ELSE D2
      S2 == [S1 EXCEPT !.player.bodyEnable = IF S1.player.hasBody THEN TRUE ELSE @]
      S3 == IF S2.player.state = DEAD THEN S2 ELSE sceneResume(S2)
  IN [S3 EXCEPT !.game.currentEnemy = 0]

\* GameScene.handleQuizResult(isCorrect)
handleQuizResult(S, isCorrect) ==
  LET ce == S.game.currentEnemy
      S1 == IF isCorrect
              THEN IF ce # 0 /\ S.game.enemies[ce].active
                     THEN [S EXCEPT !.game.enemies[ce] =
                             [exists |-> FALSE, active |-> FALSE, bodyEnable |-> FALSE]]
                     ELSE S
              ELSE
                LET D1 == damage(S, QUIZ_DAMAGE)
                    D2 == IF D1.player.state # DEAD
                            THEN transitionToState(D1, INVINCIBLE, 0) ELSE D1
                IN IF ce # 0 /\ D2.game.enemies[ce].exists
                     THEN [D2 EXCEPT !.game.enemies[ce].bodyEnable = TRUE]
                     ELSE D2
      S2 == [S1 EXCEPT !.player.bodyEnable = IF S1.player.hasBody THEN TRUE ELSE @]
      S3 == sceneResume(S2)
  IN [S3 EXCEPT !.game.currentEnemy = 0]

\* the listener createPlayer puts on 'death-animation-complete'
onDeathAnimationComplete(S) == sceneStart(S, "GameOverScene")

----------------------------------------------------------------------------
(* CollisionSystem *)

\* the dispatcher without the player-state guard
handlePlayerEnemyCollision_NoStateGuard(S, e) ==
  LET S1 == emit(S, "enemy-collided", "player", ToString(e))
  IN IF S1.game.listening THEN handleEnemyCollision(S1, e) ELSE S1

\* CollisionSystem.handlePlayerEnemyCollision(player, enemy)
handlePlayerEnemyCollision(S, e) ==
  IF S.player.state = DEAD \/ S.player.state = INVINCIBLE THEN S
  ELSE LET S1 == emit(S, "enemy-collided", "player", ToString(e))
       IN IF S1.game.listening THEN handleEnemyCollision(S1, e) ELSE S1

\* CollisionSystem.handlePlayerHeartCollision(player, heart)
handlePlayerHeartCollision(S, h) ==
  LET S1 == emit(S, "heart-collected", ToString(h), "")
  IN IF S1.game.listening THEN handleHeartCollected(S1, h) ELSE S1

\* CollisionSystem.handlePlayerCoinCollision(player, coin)
handlePlayerCoinCollision(S, c) ==
  LET S1 == emit(S, "coin-collected", ToString(c), "")
  IN IF S1.game.listening THEN handleCoinCollected(S1, c) ELSE S1

\* a key dispatcher with the player-state guard of the enemy dispatcher
handlePlayerKeyCollision_StateGuard(S) ==
  IF S.player.state = DEAD \/ S.player.state = INVINCIBLE THEN S
  ELSE LET S1 == emit(S, "key-collected", "key", "")
       IN IF S1.game.listening THEN handleKeyCollected(S1) ELSE S1

\* CollisionSystem.handlePlayerKeyCollision(player, key)
handlePlayerKeyCollision(S) ==
  LET S1 == emit(S, "key-collected", "key", "")
  IN IF S1.game.listening THEN handleKeyCollected(S1) ELSE S1

\* CollisionSystem.handlePlayerCastleCollision(player, castle)
handlePlayerCastleCollision(S) ==
  LET S1 == emit(S, "castle-collided", "castle", "")
  IN IF S1.game.listening THEN handleCastleCollision(S1) ELSE S1

----------------------------------------------------------------------------
(* QuizScene *)

categoryOf(q) == Questions[q].category

\* a filter that leaves uncategorized questions out of 'general'
keepQuestion_NoGeneral(q, category) ==
  categoryOf(q) = category

\* the filter of loadAndValidateQuizData
keepQuestion(q, category) ==
  categoryOf(q) = category \/ (category = "general" /\ categoryOf(q) = "")

\* this.quizData as loadAndValidateQuizData leaves it for the given category
filteredQuizData(category) ==
  IF cache.kind # "array" THEN <<>>
  ELSE IF category # "" THEN SelectSeq(cache.items, LAMBDA q : keepQuestion(q, category))
  ELSE cache.items

\* QuizScene.loadAndValidateQuizData(): the value returned
loadAndValidateQuizData(category) ==
  cache.kind = "array" /\ Len(filteredQuizData(category)) # 0

noHandlers == [k \in {} |-> ""]

\* QuizScene.init(data)
init(S, category, returnSceneKey) ==
  [S EXCEPT !.quiz = [@ EXCEPT !.category = category,
                               !.returnSceneKey = returnSceneKey,
                               !.currentState = LOADING,
                               !.selectedIndex = 0,
                               !.inputLocked = FALSE,
                               !.quizData = <<>>,
                               !.currentQuestion = 0,
                               !.userAnswer = "undefined",
                               !.isCorrect = FALSE,
                               !.numChoiceTexts = 0,
                               !.keyHandlers = noHandlers]]

\* targetScene.events.emit('quiz-completed', isCorrect) with GameScene's listener
emitQuizCompleted(S, isCorrect) ==
  LET S1 == emit(S, "quiz-completed", BoolStr(isCorrect), S.quiz.returnSceneKey)
  IN IF S1.quiz.returnSceneKey = "GameScene" /\ S1.game.listening
       THEN handleQuizResult(S1, isCorrect) ELSE S1

\* safeExit that stops the scene without reporting a result
safeExit_Silent(S) == queueOp(S, "stop", "QuizScene", "")

\* QuizScene.safeExit()
safeExit(S) == queueOp(emitQuizCompleted(S, FALSE), "stop", "QuizScene", "")

\* closeQuiz without the CLOSING guard
closeQuiz_NoGuard(S) ==
  LET S1 == [S EXCEPT !.quiz.currentState = CLOSING,
                      !.quiz.keyHandlers = [k \in {} |-> ""]]
  IN queueOp(emitQuizCompleted(S1, S1.quiz.isCorrect), "stop", "QuizScene", "")

\* QuizScene.closeQuiz()
closeQuiz(S) ==
  IF S.quiz.currentState = CLOSING THEN S
  ELSE LET S1 == [S EXCEPT !.quiz.currentState = CLOSING,
                           !.quiz.keyHandlers = noHandlers]
       IN queueOp(emitQuizCompleted(S1, S1.quiz.isCorrect), "stop", "QuizScene", "")

\* currentQuestion.choices[selectedIndex]
choiceAt(q, index) ==
  IF index >= 0 /\ index < Len(Questions[q].choices)
    THEN Questions[q].choices[index + 1] ELSE "undefined"

\* confirmAnswer that judges the first choice whatever is selected
confirmAnswer_FirstChoice(S) ==
  IF S.quiz.inputLocked \/ S.quiz.currentQuestion = 0 THEN S
  ELSE LET q  == S.quiz.currentQuestion
           ua == choiceAt(q, 0)
       IN [S EXCEPT !.quiz.inputLocked = TRUE,
                    !.quiz.currentState = RESULT,
                    !.quiz.userAnswer = ua,
                    !.quiz.isCorrect = (ua = Questions[q].answer),
                    !.quiz.keyHandlers =
                        [k \in {"ENTER", "SPACE", "ESC"} |-> "close"],
                    !.quiz.pointerOnce = TRUE]

\* confirmAnswer without the inputLocked guard
confirmAnswer_NoLock(S) ==
  IF S.quiz.currentQuestion = 0 THEN S
  ELSE LET q  == S.quiz.currentQuestion
           ua == choiceAt(q, S.quiz.selectedIndex)
       IN [S EXCEPT !.quiz.inputLocked = TRUE,
                    !.quiz.currentState = RESULT,
                    !.quiz.userAnswer = ua,
                    !.quiz.isCorrect = (ua = Questions[q].answer),
                    !.quiz.keyHandlers =
                        [k \in {"ENTER", "SPACE", "ESC"} |-> "close"],
                    !.quiz.pointerOnce = TRUE]

\* QuizScene.confirmAnswer(), with setupResultInputHandlers
confirmAnswer(S) ==
  IF S.quiz.inputLocked \/ S.quiz.currentQuestion = 0 THEN S
  ELSE LET q  == S.quiz.currentQuestion
           ua == choiceAt(q, S.quiz.selectedIndex)
       IN [S EXCEPT !.quiz.inputLocked = TRUE,
                    !.quiz.currentState = RESULT,
                    !.quiz.userAnswer = ua,
                    !.quiz.isCorrect = (ua = Questions[q].answer),
                    !.quiz.keyHandlers =
                        [k \in {"ENTER", "SPACE", "ESC"} |-> "close"],
                    !.quiz.pointerOnce = TRUE]

\* (selectedIndex + d) % choiceTexts.length
wrapIndex(index, d, n) ==
  IF n = 0 \/ index = NaN THEN NaN ELSE (index + d) % n

\* the handlers setupQuestionInputHandlers registers
questionHandlers ==
  [k \in {"UP", "DOWN", "1", "2", "3", "4", "ENTER"} |->
     CASE k = "UP" -> "up" [] k = "DOWN" -> "down" [] k = "ENTER" -> "confirm"
       [] OTHER -> "num"]

\* key handling whose ENTER in QUESTION closes the quiz at once
runKeyHandler_ConfirmCloses(S, k) ==
  LET kind    == S.quiz.keyHandlers[k]
      n       == S.quiz.numChoiceTexts
      blocked == S.quiz.inputLocked \/ S.quiz.currentState # QUESTION
  IN CASE kind = "close" -> closeQuiz(S)
       [] kind = "confirm" -> IF blocked THEN S ELSE closeQuiz(S)
       [] kind = "up" ->
            IF blocked THEN S
            ELSE [S EXCEPT !.quiz.selectedIndex = wrapIndex(@, n - 1, n)]
       [] kind = "down" ->
            IF blocked THEN S
            ELSE [S EXCEPT !.quiz.selectedIndex = wrapIndex(@, 1, n)]
       [] kind = "num" ->
            IF blocked \/ ~(NumKey(k) - 1 < n) THEN S
            ELSE [S EXCEPT !.quiz.selectedIndex = NumKey(k) - 1]

\* one registered keyboard handler, run for key k
runKeyHandler(S, k) ==
  LET kind    == S.quiz.keyHandlers[k]
      n       == S.quiz.numChoiceTexts
      blocked == S.quiz.inputLocked \/ S.quiz.currentState # QUESTION
  IN CASE kind = "close" -> closeQuiz(S)
       [] kind = "confirm" -> IF blocked THEN S ELSE confirmAnswer(S)
       [] kind = "up" ->
            IF blocked THEN S
            ELSE [S EXCEPT !.quiz.selectedIndex = wrapIndex(@, n - 1, n)]
       [] kind = "down" ->
            IF blocked THEN S
            ELSE [S EXCEPT !.quiz.selectedIndex = wrapIndex(@, 1, n)]
       [] kind = "num" ->
            IF blocked \/ ~(NumKey(k) - 1 < n) THEN S
            ELSE [S EXCEPT !.quiz.selectedIndex = NumKey(k) - 1]

\* the 'pointerdown' handler showQuestion puts on choice text number index
onChoicePointerDown(S, index) ==
  IF S.quiz.inputLocked \/ S.quiz.currentState # QUESTION THEN S
  ELSE confirmAnswer([S EXCEPT !.quiz.selectedIndex = index])

\* the scene-level 'pointerdown' listeners (input.once in setupResultInputHandlers)
onScenePointerDown(S) ==
  IF S.quiz.pointerOnce THEN closeQuiz([S EXCEPT !.quiz.pointerOnce = FALSE]) ELSE S

\* QuizScene.create(); r is Math.floor(Math.random() * quizData.length)
create(S, r) ==
  IF ~loadAndValidateQuizData(S.quiz.category)
    THEN safeExit([S EXCEPT !.quiz.quizData = filteredQuizData(S.quiz.category)])
    ELSE LET data == filteredQuizData(S.quiz.category)
             q    == data[r + 1]
         IN [S EXCEPT !.quiz.quizData = data,
                      !.quiz.currentQuestion = q,
                      !.quiz.currentState = QUESTION,
                      !.quiz.numChoiceTexts = Len(Questions[q].choices),
                      !.quiz.keyHandlers = questionHandlers,
                      !.quiz.cleanupRegistered = TRUE]

\* QuizScene.cleanup(), run once on 'shutdown' when create registered it
cleanup(S) ==
  [S EXCEPT !.quiz.keyHandlers = noHandlers,
            !.quiz.currentState = LOADING,
            !.quiz.inputLocked = FALSE,
            !.quiz.cleanupRegistered = FALSE]

\* the scene manager shuts QuizScene down; its input plugin drops all listeners
shutdownQuiz(S) ==
  IF S.quiz.status # "running" THEN S
  ELSE LET S1 == [S EXCEPT !.quiz.status = "stopped", !.quiz.pointerOnce = FALSE]
       IN IF S1.quiz.cleanupRegistered THEN cleanup(S1) ELSE S1

\* the scene manager shuts GameScene down: GameScene.cleanup(), objects destroyed
shutdownGame(S) ==
  IF S.game.status = "stopped" THEN S
  ELSE [S EXCEPT !.game.status = "stopped",
                 !.game.listening = FALSE,
                 !.player.invincibleTimer = 0,
                 !.player.orphans = <<>>,
                 !.player.deathTweens = <<>>,
                 !.player.hasBody = FALSE,
                 !.player.bodyEnable = FALSE]

\* one queued scene operation carried out by the scene manager
processOp(S, o, r) ==
  CASE o.op = "start" /\ o.key = "QuizScene" ->
         LET S1 == shutdownQuiz(S)
             S2 == init([S1 EXCEPT !.quiz.status = "running"], o.data, "GameScene")
         IN create(S2, r)
    [] o.op = "stop" /\ o.key = "QuizScene" -> shutdownQuiz(S)
    [] o.op = "stop" /\ o.key = "GameScene" -> shutdownGame(S)
    [] o.op = "start" /\ o.key = "PauseOverlayScene" ->
         [S EXCEPT !.game.pauseOverlay = "running"]
    [] o.op = "stop" /\ o.key = "PauseOverlayScene" ->
         [S EXCEPT !.game.pauseOverlay = "stopped"]
    [] o.op = "start" /\ o.key = "GameScene" ->
         [shutdownGame(S) EXCEPT !.player = newPlayer,
                                 !.game = [newGame EXCEPT !.pauseOverlay = S.game.pauseOverlay]]
    [] OTHER -> [S EXCEPT !.game.endScene = o.key]

RECURSIVE runQueue(_, _, _)
runQueue(S, ops, r) ==
  IF ops = <<>> THEN S ELSE runQueue(processOp(S, Head(ops), r), Tail(ops), r)

\* number of values Math.floor(Math.random() * length) can take for the queued launch
randomRange(ops) ==
  LET starts == SelectSeq(ops, LAMBDA o : o.op = "start" /\ o.key = "QuizScene")
  IN IF starts = <<>> THEN 1 ELSE Max(1, Len(filteredQuizData(starts[1].data)))

----------------------------------------------------------------------------
(* QuizDataManager *)

\* new QuizDataManager(scene); returned and drawn record what the calls gave back
newQdm ==
  [quizData           |-> <<>>,
   availableQuestions |-> <<>>,
   returned           |-> FALSE,   \* value returned by the latest load()
   drawn              |-> <<>>]    \* values returned by getRandomQuestion since the latest load(); 0: undefined

Range(f) == {f[i] : i \in DOMAIN f}

\* splice(index, 1) on a list, index counted from 0
splice(list, index) ==
  SubSeq(list, 1, index) \o SubSeq(list, index + 2, Len(list))

\* QuizDataManager.load(cacheKey, category), data being cache.json.get(cacheKey)
load(M, data, category) ==
  IF data.kind # "array" THEN [M EXCEPT !.returned = FALSE, !.drawn = <<>>]
  ELSE LET filtered == IF category # ""
                         THEN SelectSeq(data.items, LAMBDA q : keepQuestion(q, category))
                         ELSE data.items
       IN IF Len(filtered) = 0
            THEN [M EXCEPT !.quizData = filtered, !.returned = FALSE, !.drawn = <<>>]
            ELSE [M EXCEPT !.quizData = filtered,
                           !.availableQuestions = filtered,
                           !.returned = TRUE,
                           !.drawn = <<>>]

\* the pool getRandomQuestion draws from, after its reset of an empty pool
refilled(M) ==
  IF Len(M.availableQuestions) = 0 THEN M.quizData ELSE M.availableQuestions

\* getRandomQuestion that reads the question and leaves it in the pool
getRandomQuestion_NoSplice(M, r) ==
  LET pool == refilled(M)
  IN IF Len(pool) = 0
       THEN [M EXCEPT !.availableQuestions = pool, !.drawn = Append(@, 0)]
       ELSE [M EXCEPT !.availableQuestions = pool, !.drawn = Append(@, pool[r + 1])]

\* getRandomQuestion that never resets the pool
getRandomQuestion_NoRefill(M, r) ==
  LET pool == M.availableQuestions
  IN IF Len(pool) = 0
       THEN [M EXCEPT !.drawn = Append(@, 0)]
       ELSE [M EXCEPT !.availableQuestions = splice(pool, r),
                      !.drawn = Append(@, pool[r + 1])]

\* QuizDataManager.getRandomQuestion(); r is Math.floor(Math.random() * length)
getRandomQuestion(M, r) ==
  LET pool == refilled(M)
  IN IF Len(pool) = 0
       THEN [M EXCEPT !.availableQuestions = pool, !.drawn = Append(@, 0)]
       ELSE [M EXCEPT !.availableQuestions = splice(pool, r),
                      !.drawn = Append(@, pool[r + 1])]

----------------------------------------------------------------------------
(* WanderController, with the enemy it steers.  Coordinates are relative to *)
(* the spawn point (e.x, e.y) of the enemy; the enemy's origin is (0, 1).   *)

\* this.bounds: new Phaser.Geom.Rectangle(e.x - 100, e.y - 100, 200, 100)
bounds ==
  [left |-> 0 - WANDER_RANGE, right  |-> 0 - WANDER_RANGE + WANDER_BOUNDS_W,
   top  |-> 0 - WANDER_RANGE, bottom |-> 0 - WANDER_RANGE + WANDER_BOUNDS_H]

\* angles Phaser.Math.FloatBetween(0, 2 * Math.PI) is tried with, in degrees
Angles == {0, 45, 135, 225, 315}

\* 100 * (Math.cos(angle), Math.sin(angle)), rounded
unitVector(angle) ==
  CASE angle = 0   -> <<100, 0>>
    [] angle = 45  -> <<70, 70>>
    [] angle = 135 -> <<-70, 70>>
    [] angle = 225 -> <<-70, -70>>
    [] angle = 315 -> <<70, -70>>

Blocked == {"none", "left", "right", "up", "down"}

Abs(a) == IF a < 0 THEN 0 - a ELSE a

\* WanderController.setRandomVelocity(enemy)
setRandomVelocity(W, angle) ==
  [W EXCEPT !.vx = (ENEMY_SPEED * unitVector(angle)[1]) \div 100,
            !.vy = (ENEMY_SPEED * unitVector(angle)[2]) \div 100]

\* enemy.getBounds(): the sprite's rectangle, origin (0, 1)
getBounds(W) ==
  [left |-> W.x, right |-> W.x + EnemyW, top |-> W.y - EnemyH, bottom |-> W.y,
   width |-> EnemyW, height |-> EnemyH]

\* the enemy and its controller after new Enemy(...), new WanderController(bounds, enemy)
\* and enemy.initialize(aiController)
newWander(angle) ==
  setRandomVelocity(
    [x |-> 0, y |-> 0,                 \* enemy.x, enemy.y
     bx |-> 0, by |-> 0 - EnemyH,      \* body.x, body.y (top left corner of the body)
     vx |-> 0, vy |-> 0,               \* body.velocity
     blocked |-> "none",               \* side on which body.blocked is set
     enable |-> TRUE,                  \* body.enable
     changeDirectionTimer |-> 0,
     phase |-> "update",               \* what the frame does next: update | step
     px |-> 0, py |-> 0],              \* enemy.x, enemy.y when the latest update() began
    angle)

\* WanderController.isOutOfBounds(enemy)
isOutOfBounds(W) ==
  LET b == getBounds(W)
  IN \/ b.left < bounds.left
     \/ b.right > bounds.right
     \/ b.top < bounds.top
     \/ b.bottom > bounds.bottom

\* WanderController.bringBackInBounds(enemy)
bringBackInBounds(W) ==
  LET spriteBounds == getBounds(W)
      W1 == IF spriteBounds.left < bounds.left
              THEN [W EXCEPT !.bx = bounds.left, !.vx = Abs(W.vx)]
            ELSE IF spriteBounds.right > bounds.right
              THEN [W EXCEPT !.bx = bounds.right - spriteBounds.width, !.vx = 0 - Abs(W.vx)]
            ELSE IF W.blocked = "left" THEN [W EXCEPT !.vx = Abs(W.vx)]
            ELSE IF W.blocked = "right" THEN [W EXCEPT !.vx = 0 - Abs(W.vx)]
            ELSE W
  IN IF spriteBounds.top < bounds.top
       THEN [W1 EXCEPT !.by = bounds.top, !.vy = Abs(W1.vy)]
     ELSE IF spriteBounds.bottom > bounds.bottom
       THEN [W1 EXCEPT !.by = bounds.bottom - spriteBounds.height, !.vy = 0 - Abs(W1.vy)]
     ELSE IF W1.blocked = "up" THEN [W1 EXCEPT !.vy = Abs(W1.vy)]
     ELSE IF W1.blocked = "down" THEN [W1 EXCEPT !.vy = 0 - Abs(W1.vy)]
     ELSE W1

\* WanderController.update(enemy, delta); angle is used if a new direction is drawn
wanderUpdate(W, delta, angle) ==
  IF ~W.enable THEN W
  ELSE LET t  == W.changeDirectionTimer - delta
           W1 == IF t <= 0
                   THEN [setRandomVelocity(W, angle) EXCEPT
                           !.changeDirectionTimer = CHANGE_DIRECTION_MS]
                   ELSE [W EXCEPT !.changeDirectionTimer = t]
       IN IF isOutOfBounds(W1) \/ W1.blocked # "none"
            THEN bringBackInBounds(W1) ELSE W1

\* the arcade world steps the enemy's body by delta; b is the side the step
\* finds the body blocked on
worldStep(W, delta, b) ==
  IF ~W.enable THEN W
  ELSE LET fromX == W.x                 \* updateFromGameObject, origin (0, 1)
           fromY == W.y - EnemyH
           toX   == fromX + (W.vx * delta) \div 1000
           toY   == fromY + (W.vy * delta) \div 1000
       IN [W EXCEPT !.bx = toX, !.by = toY, !.blocked = b,
                    !.x = W.x + (toX - fromX),       \* postUpdate
                    !.y = W.y + (toY - fromY)]

----------------------------------------------------------------------------
(* PatrolController and the enemy it drives; initialPosition is the origin *)

Axes == {"horizontal", "vertical"}
Directions == {0 - 1, 1}

\* positions the patrolling enemy is placed at: beyond either end, and at initialPosition
PatrolStarts == {0 - PatrolRange - EnemyW, 0, PatrolRange + EnemyW}

\* new PatrolController(0, PatrolRange, axis) for an enemy placed at start on
\* the axis; direction is the constructor's random choice
newPatrol(axis, direction, start) ==
  [ai        |-> "wander",              \* controller of the enemy the frame steps: wander | patrol
   axis      |-> axis,
   direction |-> direction,
   x  |-> IF axis = "horizontal" THEN start ELSE 0,     \* enemy.x
   y  |-> IF axis = "vertical" THEN start ELSE 0,       \* enemy.y
   vx |-> 0, vy |-> 0,                  \* body.velocity
   enable |-> TRUE,                     \* body present and body.enable
   phase  |-> "update",                 \* what the frame does next: update | step
   px |-> 0, py |-> 0,                  \* enemy.x, enemy.y when the latest update() began
   pdirection |-> direction]            \* direction when the latest update() began

\* PatrolController.update without the guard on the body
patrolUpdate_NoGuard(P) ==
  IF P.axis = "horizontal"
    THEN LET d == IF P.x <= 0 - PatrolRange THEN 1
                  ELSE IF P.x >= PatrolRange THEN 0 - 1 ELSE P.direction
         IN [P EXCEPT !.direction = d, !.vx = ENEMY_SPEED * d]
    ELSE LET d == IF P.y <= 0 - PatrolRange THEN 1
                  ELSE IF P.y >= PatrolRange THEN 0 - 1 ELSE P.direction
         IN [P EXCEPT !.direction = d, !.vy = ENEMY_SPEED * d]

\* PatrolController.update that turns at the far end only
patrolUpdate_NoTurnAtStart(P) ==
  IF ~P.enable THEN P
  ELSE IF P.axis = "horizontal"
    THEN LET d == IF P.x >= PatrolRange THEN 0 - 1 ELSE P.direction
         IN [P EXCEPT !.direction = d, !.vx = ENEMY_SPEED * d]
    ELSE LET d == IF P.y >= PatrolRange THEN 0 - 1 ELSE P.direction
         IN [P EXCEPT !.direction = d, !.vy = ENEMY_SPEED * d]

\* PatrolController.update(enemy, delta)
patrolUpdate(P) ==
  IF ~P.enable THEN P
  ELSE IF P.axis = "horizontal"
    THEN LET d == IF P.x <= 0 - PatrolRange THEN 1
                  ELSE IF P.x >= PatrolRange THEN 0 - 1 ELSE P.direction
         IN [P EXCEPT !.direction = d, !.vx = ENEMY_SPEED * d]
    ELSE LET d == IF P.y <= 0 - PatrolRange THEN 1
                  ELSE IF P.y >= PatrolRange THEN 0 - 1 ELSE P.direction
         IN [P EXCEPT !.direction = d, !.vy = ENEMY_SPEED * d]

\* the arcade world steps the patrolling enemy's body by delta
patrolWorldStep(P, delta) ==
  IF ~P.enable THEN P
  ELSE [P EXCEPT !.x = P.x + (P.vx * delta) \div 1000,
                 !.y = P.y + (P.vy * delta) \div 1000]

----------------------------------------------------------------------------
(* Scene clock and tween manager of GameScene, one step of TickMs *)

RECURSIVE updateOrphans(_, _)
updateOrphans(S, os) ==
  IF os = <<>> THEN S
  ELSE LET rem == Head(os) - TickMs
       IN IF rem <= 0
            THEN updateOrphans(transitionToState(S, NORMAL, 0), Tail(os))
            ELSE updateOrphans([S EXCEPT !.player.orphans = Append(@, rem)], Tail(os))

\* Clock.update: the callback of Player.ts line 151 for every event that is due
clockUpdate(S) ==
  LET S1 == updateOrphans([S EXCEPT !.player.orphans = <<>>], S.player.orphans)
      t  == S1.player.invincibleTimer
  IN IF t = 0 THEN S1
     ELSE IF t - TickMs <= 0
            THEN transitionToState([S1 EXCEPT !.player.invincibleTimer = 0], NORMAL, 0)
            ELSE [S1 EXCEPT !.player.invincibleTimer = t - TickMs]

RECURSIVE updateTweens(_, _)
updateTweens(S, ts) ==
  IF ts = <<>> THEN S
  ELSE LET rem == Head(ts) - TickMs
       IN IF rem <= 0
            THEN LET S1 == emit(S, "death-animation-complete", "", "")
                 IN updateTweens(IF S1.game.listening
                                   THEN onDeathAnimationComplete(S1) ELSE S1, Tail(ts))
            ELSE updateTweens([S EXCEPT !.player.deathTweens = Append(@, rem)], Tail(ts))

\* TweenManager.update: onComplete of the death tween (Player.ts line 170)
tweensUpdate(S) ==
  updateTweens([S EXCEPT !.player.deathTweens = <<>>], S.player.deathTweens)

----------------------------------------------------------------------------
(* Steps *)

\* the step taken, with the player state, health and quiz state it started from
Step(op, n, s) ==
  [op |-> op, n |-> n, s |-> s,
   state |-> player.state, health |-> player.health, quizState |-> quiz.currentState]

Commit(R, op, n, s) ==
  /\ player' = R.player
  /\ game' = R.game
  /\ quiz' = R.quiz
  /\ queue' = R.queue
  /\ emits' = R.emits
  /\ last' = Step(op, n, s)
  /\ shown' = IF op = "processQueue" /\ s = "QuizScene" /\ R.quiz.currentState = QUESTION
                THEN LET all == Append(shown, R.quiz.currentQuestion)
                     IN SubSeq(all, Max(1, Len(all) - MaxShown + 1), Len(all))
                ELSE shown
  /\ UNCHANGED <<cache, registry, qdm, wander, patrol>>

InitStage ==
  /\ player = newPlayer
  /\ game = newGame
  /\ quiz = newQuiz
  /\ queue = <<>>
  /\ emits = <<>>
  /\ last = [op |-> "createPlayer", n |-> 0, s |-> "",
             state |-> NORMAL, health |-> PLAYER_INITIAL_HEALTH, quizState |-> LOADING]
  /\ cache \in CacheValues
  /\ registry \in RegistryValues
  /\ shown = <<>>
  /\ qdm = newQdm

Init ==
  /\ InitStage
  /\ wander = newWander(0)
  /\ patrol = newPatrol("horizontal", 1, 0)

\* operations queued by the pause overlay's handlers (input events, between
\* frames) are carried out at the start of the next frame, before its physics
OverlayOpsDone == \A i \in DOMAIN queue : queue[i].key # "PauseOverlayScene"

\* the physics step reports the player overlapping enemy e
PhysicsOverlapEnemy(e) ==
  /\ game.status = "running" /\ OverlayOpsDone
  /\ player.bodyEnable
  /\ game.enemies[e].exists /\ game.enemies[e].bodyEnable
  /\ Commit(handlePlayerEnemyCollision(Here, e), "overlapEnemy", e, "")

\* the physics step reports the player overlapping heart h
PhysicsOverlapHeart(h) ==
  /\ game.status = "running" /\ OverlayOpsDone
  /\ player.bodyEnable
  /\ game.hearts[h].bodyEnable
  /\ Commit(handlePlayerHeartCollision(Here, h), "overlapHeart", h, "")

\* the physics step reports the player overlapping coin c
PhysicsOverlapCoin(c) ==
  /\ game.status = "running" /\ OverlayOpsDone
  /\ player.bodyEnable
  /\ game.coins[c].bodyEnable
  /\ Commit(handlePlayerCoinCollision(Here, c), "overlapCoin", c, "")

\* the physics step reports the player overlapping the key
PhysicsOverlapKey ==
  /\ game.status = "running" /\ OverlayOpsDone
  /\ player.bodyEnable
  /\ game.key.bodyEnable
  /\ Commit(handlePlayerKeyCollision(Here), "overlapKey", 0, "")

\* the physics step reports the player overlapping the castle, once until the
\* scene manager has carried out the queued start (at the next frame); the
\* world may take further fixed steps in the same frame, so other overlaps can
\* still be reported in between
PhysicsOverlapCastle ==
  /\ game.status = "running" /\ OverlayOpsDone
  /\ player.bodyEnable
  /\ \A i \in DOMAIN queue : queue[i].key # "ClearScene"
  /\ Commit(handlePlayerCastleCollision(Here), "overlapCastle", 0, "")

\* GameScene's clock and tweens advance by TickMs
ClockTick ==
  /\ game.status = "running"
  /\ queue = <<>>          \* queued scene operations are carried out before a frame's update
  /\ Commit(tweensUpdate(clockUpdate(Here)), "tick", TickMs, "")

\* the scene manager carries out the queued operations
ProcessQueue(r) ==
  /\ queue # <<>>
  /\ r < randomRange(queue)
  /\ Commit(runQueue([Here EXCEPT !.queue = <<>>], queue, r), "processQueue", r,
            IF \E i \in DOMAIN queue : queue[i].op = "start" /\ queue[i].key = "QuizScene"
              THEN "QuizScene" ELSE "")

\* a key goes down while QuizScene runs
QuizKeyDown(k) ==
  /\ quiz.status = "running"
  /\ k \in DOMAIN quiz.keyHandlers
  /\ Commit(runKeyHandler(Here, k), "quizKey", 0, k)

\* the pointer goes down on choice text t (t >= 1) or elsewhere (t = 0)
QuizPointerDown(t) ==
  /\ quiz.status = "running"
  /\ IF t = 0 THEN quiz.pointerOnce
               ELSE quiz.currentState = QUESTION /\ t <= quiz.numChoiceTexts
  /\ LET S1 == IF t = 0 THEN Here ELSE onChoicePointerDown(Here, t - 1)
     IN Commit(onScenePointerDown(S1), "quizPointer", t, "")

\* GameScene is started again (retry): init(), create(), new Player, initialize()
GameSceneStart(reg) ==
  /\ game.status = "stopped"
  /\ queue = <<>>
  /\ quiz.status = "stopped"
  /\ player' = newPlayer
  /\ game' = newGame
  /\ registry' = reg
  /\ emits' = <<>>
  /\ last' = Step("createPlayer", 0, "")
  /\ shown' = <<>>
  /\ UNCHANGED <<quiz, queue, cache, qdm, wander, patrol>>

MaxChoices == 3

Next ==
  \/ \E e \in Enemies : PhysicsOverlapEnemy(e)
  \/ \E h \in Hearts : PhysicsOverlapHeart(h)
  \/ \E c \in Coins : PhysicsOverlapCoin(c)
  \/ PhysicsOverlapKey
  \/ PhysicsOverlapCastle
  \/ ClockTick
  \/ \E r \in 0..(Len(Questions) - 1) : ProcessQueue(r)
  \/ \E k \in Keys : QuizKeyDown(k)
  \/ \E t \in 0..MaxChoices : QuizPointerDown(t)
  \/ \E reg \in RegistryValues : GameSceneStart(reg)

Spec == Init /\ [][Next]_vars

----------------------------------------------------------------------------
(* The game with its pause overlay *)

\* ESC goes down while GameScene takes keyboard input
GameEscKey ==
  /\ game.status = "running" /\ game.keyboardEnabled /\ game.listening
  /\ Len(queue) < MaxQueue
  /\ Commit(onEscKey(Here), "escKey", 0, "ESC")

\* ESC, R or T goes down, or a menu entry is selected, while PauseOverlayScene runs
PauseKeyDown(actionIndex) ==
  /\ game.pauseOverlay = "running"
  /\ Len(queue) < MaxQueue
  /\ Commit(executeAction(Here, actionIndex), "pauseKey", actionIndex, "")

NextPause ==
  \/ \E e \in Enemies : PhysicsOverlapEnemy(e)
  \/ \E h \in Hearts : PhysicsOverlapHeart(h)
  \/ \E c \in Coins : PhysicsOverlapCoin(c)
  \/ PhysicsOverlapKey
  \/ PhysicsOverlapCastle
  \/ ClockTick
  \/ \E r \in 0..(Len(Questions) - 1) : ProcessQueue(r)
  \/ \E k \in Keys : QuizKeyDown(k)
  \/ \E t \in 0..MaxChoices : QuizPointerDown(t)
  \/ \E reg \in RegistryValues : GameSceneStart(reg)
  \/ GameEscKey
  \/ \E actionIndex \in 0..2 : PauseKeyDown(actionIndex)

SpecPause == Init /\ [][NextPause]_vars

----------------------------------------------------------------------------
(* The Player class driven directly through its public methods *)

\* keeps the direct calls within the bounds of the model
Bounded(R) ==
  /\ Len(R.player.orphans) <= MaxOrphans
  /\ Len(R.player.deathTweens) <= MaxTweens

PlayerDamage(a) ==
  /\ game.status = "running"
  /\ Bounded(damage(Here, a))
  /\ Commit(damage(Here, a), "damage", a, "")

PlayerHeal(a) ==
  /\ game.status = "running"
  /\ Commit(heal(Here, a), "heal", a, "")

PlayerInitialize ==
  /\ game.status = "running"
  /\ Commit(initialize(Here), "initialize", 0, "")

PlayerTransition(s, d) ==
  /\ game.status = "running"
  /\ Bounded(transitionToState(Here, s, d))
  /\ Commit(transitionToState(Here, s, d), "transitionToState", d, s)

NextPlayer ==
  \/ \E a \in Amounts : PlayerDamage(a)
  \/ \E a \in Amounts : PlayerHeal(a)
  \/ PlayerInitialize
  \/ \E s \in PlayerState, d \in Durations : PlayerTransition(s, d)
  \/ ClockTick
  \/ \E r \in {0} : ProcessQueue(r)
  \/ \E reg \in {registry} : GameSceneStart(reg)

\* the quiz bank plays no part when the Player is driven directly
InitPlayer == Init /\ cache.kind = "missing" /\ registry = ""

SpecPlayer == InitPlayer /\ [][NextPlayer]_vars

----------------------------------------------------------------------------
(* The QuizDataManager class driven directly through its public methods *)

Categories == {"", "general", "math", "history"}

\* load(cacheKey, category) with the cache entry holding c
QdmLoad(c, category) ==
  /\ cache' = c
  /\ qdm' = load(qdm, c, category)
  /\ UNCHANGED <<player, game, quiz, queue, emits, last, registry, shown, wander, patrol>>

\* getRandomQuestion() with random index r
QdmDraw(r) ==
  /\ Len(qdm.drawn) < MaxDraws
  /\ r < Max(1, Len(refilled(qdm)))
  /\ qdm' = getRandomQuestion(qdm, r)
  /\ UNCHANGED <<player, game, quiz, queue, emits, last, cache, registry, shown, wander, patrol>>

NextQdm ==
  \/ \E c \in CacheValues, category \in Categories : QdmLoad(c, category)
  \/ \E r \in 0..(Len(Questions) - 1) : QdmDraw(r)

SpecQdm == InitPlayer /\ [][NextQdm]_vars

----------------------------------------------------------------------------
(* One wandering enemy, frame by frame: Enemy.update, then the world step *)

\* Enemy.update(time, delta) of the active enemy: aiController.update(this, delta)
WanderUpdate(angle) ==
  /\ wander.phase = "update"
  /\ wander' = [wanderUpdate(wander, WanderDeltaMs, angle) EXCEPT
                  !.phase = "step", !.px = wander.x, !.py = wander.y]
  /\ UNCHANGED <<player, game, quiz, queue, emits, last, cache, registry, shown, qdm, patrol>>

\* the arcade world's step of the frame
WorldStep(b) ==
  /\ wander.phase = "step"
  /\ wander' = [worldStep(wander, WanderDeltaMs, b) EXCEPT !.phase = "update"]
  /\ UNCHANGED <<player, game, quiz, queue, emits, last, cache, registry, shown, qdm, patrol>>

\* GameScene disables the enemy's body for a quiz and enables it afterwards
WanderBodyEnable(e) ==
  /\ wander.phase = "update"
  /\ wander.enable # e
  /\ wander' = [wander EXCEPT !.enable = e]
  /\ UNCHANGED <<player, game, quiz, queue, emits, last, cache, registry, shown, qdm, patrol>>

NextWander ==
  \/ \E angle \in Angles : WanderUpdate(angle)
  \/ \E b \in Blocked : WorldStep(b)
  \/ \E e \in BOOLEAN : WanderBodyEnable(e)

InitWander ==
  /\ InitStage /\ cache.kind = "missing" /\ registry = ""
  /\ \E angle \in Angles : wander = newWander(angle)
  /\ patrol = newPatrol("horizontal", 1, 0)

SpecWander == InitWander /\ [][NextWander]_vars

(* One enemy under either controller, frame by frame *)

\* Enemy.update(time, delta) of the patrolling enemy: aiController.update(this, delta)
PatrolUpdate ==
  /\ patrol.phase = "update"
  /\ patrol' = [patrolUpdate(patrol) EXCEPT
                  !.phase = "step", !.px = patrol.x, !.py = patrol.y,
                  !.pdirection = patrol.direction]
  /\ UNCHANGED <<player, game, quiz, queue, emits, last, cache, registry, shown, qdm, wander>>

\* the arcade world's step of the frame
PatrolWorldStep ==
  /\ patrol.phase = "step"
  /\ patrol' = [patrolWorldStep(patrol, WanderDeltaMs) EXCEPT !.phase = "update"]
  /\ UNCHANGED <<player, game, quiz, queue, emits, last, cache, registry, shown, qdm, wander>>

\* GameScene disables the enemy's body for a quiz and enables it afterwards
PatrolBodyEnable(e) ==
  /\ patrol.phase = "update"
  /\ patrol.enable # e
  /\ patrol' = [patrol EXCEPT !.enable = e]
  /\ UNCHANGED <<player, game, quiz, queue, emits, last, cache, registry, shown, qdm, wander>>

NextAi ==
  \/ \E angle \in Angles : patrol.ai = "wander" /\ WanderUpdate(angle)
  \/ \E b \in Blocked : patrol.ai = "wander" /\ WorldStep(b)
  \/ \E e \in BOOLEAN : patrol.ai = "wander" /\ WanderBodyEnable(e)
  \/ patrol.ai = "patrol" /\ PatrolUpdate
  \/ patrol.ai = "patrol" /\ PatrolWorldStep
  \/ \E e \in BOOLEAN : patrol.ai = "patrol" /\ PatrolBodyEnable(e)

InitAi ==
  /\ InitStage /\ cache.kind = "missing" /\ registry = ""
  /\ \/ /\ \E angle \in Angles : wander = newWander(angle)
        /\ patrol = newPatrol("horizontal", 1, 0)
     \/ /\ wander = newWander(0)
        /\ \E axis \in Axes, d \in Directions, start \in PatrolStarts :
             patrol = [newPatrol(axis, d, start) EXCEPT !.ai = "patrol"]

SpecAi == InitAi /\ [][NextAi]_vars

(* One patrolling enemy placed at its controller's initialPosition, frame by frame *)

\* the arcade world's step of a frame of PatrolDeltaMs
PatrolFrameStep ==
  /\ patrol.phase = "step"
  /\ patrol' = [patrolWorldStep(patrol, PatrolDeltaMs) EXCEPT !.phase = "update"]
  /\ UNCHANGED <<player, game, quiz, queue, emits, last, cache, registry, shown, qdm, wander>>

NextPatrol ==
  \/ PatrolUpdate
  \/ PatrolFrameStep
  \/ \E e \in BOOLEAN : PatrolBodyEnable(e)

\* new PatrolController(enemy.x or enemy.y, PatrolRange, axis), either direction
InitPatrol ==
  /\ InitStage /\ cache.kind = "missing" /\ registry = ""
  /\ wander = newWander(0)
  /\ \E axis \in Axes, d \in Directions :
       patrol = [newPatrol(axis, d, 0) EXCEPT !.ai = "patrol"]

SpecPatrol == InitPatrol /\ [][NextPatrol]_vars

(* Player.heal called with any integer amount, the other calls as above *)

HealAmounts == (0 - MaxAmount - 1)..(MaxAmount + 1)

PlayerHealAny(a) ==
  /\ game.status = "running"
  /\ heal(Here, a).player.health >= 0 - MaxAmount - 1
  /\ Commit(heal(Here, a), "heal", a, "")

NextHeal ==
  \/ \E a \in HealAmounts : PlayerHealAny(a)
  \/ \E s \in PlayerState, d \in Durations : PlayerTransition(s, d)
  \/ ClockTick
  \/ ProcessQueue(0)
  \/ \E reg \in {registry} : GameSceneStart(reg)

SpecHeal == InitPlayer /\ [][NextHeal]_vars

(* The Player driven directly, with or without a physics body (the case    *)
(* transitionToState's `if (!this.body) return` provides for).              *)
InitBody ==
  /\ \E b \in BOOLEAN :
       player = [newPlayer EXCEPT !.hasBody = b, !.bodyEnable = b]
  /\ game = newGame
  /\ quiz = newQuiz
  /\ queue = <<>>
  /\ emits = <<>>
  /\ last = [op |-> "createPlayer", n |-> 0, s |-> "",
             state |-> NORMAL, health |-> PLAYER_INITIAL_HEALTH, quizState |-> LOADING]
  /\ cache = [kind |-> "missing", items |-> <<>>]
  /\ registry = ""
  /\ shown = <<>>
  /\ qdm = newQdm
  /\ wander = newWander(0)
  /\ patrol = newPatrol("horizontal", 1, 0)

SpecBody == InitBody /\ [][NextPlayer]_vars

(* The Player driven directly, on a scene whose clock keeps advancing and    *)
(* whose scene manager carries out its queue every frame.                   *)
FairPlayer ==
  /\ SpecPlayer
  /\ WF_vars(ClockTick)
  /\ WF_vars(ProcessQueue(0))

(* The game with the scheduling the engine guarantees (the scene manager    *)
(* carries out its queue every frame) and a user who eventually presses     *)
(* ENTER, the key that confirms an answer and closes the result.            *)
\* the steps of a stage whose map places no coin, key or castle
NextEnemies ==
  \/ \E e \in Enemies : PhysicsOverlapEnemy(e)
  \/ \E h \in Hearts : PhysicsOverlapHeart(h)
  \/ ClockTick
  \/ \E r \in 0..(Len(Questions) - 1) : ProcessQueue(r)
  \/ \E k \in Keys : QuizKeyDown(k)
  \/ \E t \in 0..MaxChoices : QuizPointerDown(t)
  \/ \E reg \in RegistryValues : GameSceneStart(reg)

FairSpec ==
  /\ Init /\ [][NextEnemies]_vars
  /\ WF_vars(\E r \in 0..(Len(Questions) - 1) : ProcessQueue(r))
  /\ WF_vars(QuizKeyDown("ENTER"))

----------------------------------------------------------------------------
(* Properties *)

\* number of events called name emitted by the last step
CountEmits(name) == Cardinality({i \in DOMAIN emits : emits[i].name = name})

\* the last step emitted 'quiz-completed' with payload b
QuizCompleted(b) ==
  \E i \in DOMAIN emits : emits[i].name = "quiz-completed" /\ emits[i].a = BoolStr(b)

\* the last step called Player.heal / Player.damage
HealCalled   == last.op = "heal" \/ (last.op = "overlapHeart" /\ CountEmits("heart-collected") = 1)
\* ... and GameScene, still listening, handled it
WrongAnswerApplied ==
  CountEmits("quiz-completed") > 0 /\ QuizCompleted(FALSE) /\ game.listening
DamageCalled == last.op = "damage" \/ WrongAnswerApplied

QuizInput == {"quizKey", "quizPointer"}

\* C1: a player-enemy overlap callback that finds the player DEAD or
\* INVINCIBLE emits no event at all, for every enemy and every repetition.
C1_SuppressedWhileDeadOrInvincible ==
  (last.op = "overlapEnemy" /\ last.state \in {DEAD, INVINCIBLE}) => emits = <<>>

C1_Witness ==
  last.op = "overlapEnemy" /\ last.state = INVINCIBLE /\ emits = <<>>

\* C2: damage(amount) with amount > 0 called while the player is INVINCIBLE
\* leaves health and state as they were.
C2_InvincibleImmunity ==
  (last.op = "damage" /\ last.n > 0 /\ last.state = INVINCIBLE)
    => (player.health = last.health /\ player.state = INVINCIBLE /\ emits = <<>>)

C2_Witness ==
  last.op = "damage" /\ last.n > 0 /\ last.state = INVINCIBLE /\ player.health > 0

\* C3: after every heal / damage call with an amount >= 0, starting from the
\* constructed player, 0 <= health <= maxHealth.
C3_HealthClamp ==
  0 <= player.health /\ player.health <= player.maxHealth

C3_Witness ==
  /\ last.op = "heal"
  /\ last.health + last.n > player.maxHealth
  /\ player.health = player.maxHealth

\* C4 (as claimed): in every reachable state of the game, the player is DEAD
\* if and only if health is 0.
C4_DeadIffZeroHealth ==
  (player.state = DEAD) <=> (player.health = 0)

\* C5 (as claimed): a heal or damage call made while the player is DEAD
\* leaves health unchanged and emits no 'state-changed'.
C5_DeathImmunity ==
  (last.state = DEAD /\ (HealCalled \/ DamageCalled))
    => (player.health = last.health /\ player.state = DEAD /\ CountEmits("state-changed") = 0)

\* C6: an incorrect quiz result applied to a NORMAL player with health 1
\* leaves health 0 and state DEAD, and a DEAD player stays DEAD (in particular
\* never becomes INVINCIBLE) until a new Player is created.
C6_DeathBypassesInvincible ==
  /\ []((WrongAnswerApplied /\ last.state = NORMAL /\ last.health = 1)
          => (player.health = 0 /\ player.state = DEAD))
  /\ [][(player.state = DEAD /\ last'.op # "createPlayer") => player'.state = DEAD]_vars

C6_Witness ==
  /\ WrongAnswerApplied /\ last.state = NORMAL /\ last.health = 1
  /\ player.state = DEAD

\* C7: an incorrect quiz result applied to a NORMAL player with health >= 2
\* takes exactly 1 health and leaves the player INVINCIBLE.
C7_WrongAnswerGrace ==
  (WrongAnswerApplied /\ last.state = NORMAL /\ last.health >= 2)
    => (player.health = last.health - 1 /\ player.state = INVINCIBLE)

C7_Witness ==
  /\ WrongAnswerApplied /\ last.state = NORMAL /\ last.health = 2
  /\ player.state = INVINCIBLE /\ player.health = 1

\* GameScene is paused by handleEnemyCollision and the result is not yet applied
PausedForQuiz == game.status = "paused" /\ game.currentEnemy # 0

\* C8: every pause of GameScene made by handleEnemyCollision is eventually
\* followed by a resume (or stop) of GameScene.
C8_PauseIsResumed ==
  PausedForQuiz ~> (game.status # "paused")

C8_Witness ==
  /\ last.op \in QuizInput /\ last.quizState = RESULT
  /\ CountEmits("quiz-completed") = 1
  /\ game.status = "running" /\ game.currentEnemy = 0

\* the last step launched QuizScene and the bank is missing, not an array or
\* empty after filtering
FailedLaunch ==
  last.op = "processQueue" /\ last.s = "QuizScene" /\ ~loadAndValidateQuizData(quiz.category)

\* C9: a launch whose bank is missing, not an array or empty after filtering
\* emits exactly one 'quiz-completed' with payload false to the return scene,
\* queues the stop of QuizScene, and never shows QUESTION or RESULT.
C9_SafeExit ==
  /\ FailedLaunch =>
       /\ CountEmits("quiz-completed") = 1
       /\ \A i \in DOMAIN emits : emits[i].name = "quiz-completed" =>
            (emits[i].a = "false" /\ emits[i].b = "GameScene")
       /\ \E i \in DOMAIN queue : queue[i].op = "stop" /\ queue[i].key = "QuizScene"
       /\ game.status # "paused"
  /\ (quiz.status = "running" /\ ~loadAndValidateQuizData(quiz.category))
       => quiz.currentState = LOADING

C9_Witness ==
  FailedLaunch /\ CountEmits("quiz-completed") = 1 /\ quiz.currentState = LOADING

\* C10: the first closeQuiz of a launch emits exactly one 'quiz-completed';
\* every close input that arrives afterwards (state CLOSING) emits nothing and
\* changes nothing but the consumed one-shot pointer listener.
C10_IdempotentClose ==
  /\ []((last.op \in QuizInput /\ last.quizState = RESULT) => CountEmits("quiz-completed") = 1)
  /\ [][(quiz.currentState = CLOSING /\ last'.op \in QuizInput)
          => /\ emits' = <<>>
             /\ UNCHANGED <<player, game, queue>>
             /\ quiz' = [quiz EXCEPT !.pointerOnce = FALSE]]_vars

C10_Witness ==
  last.op = "quizPointer" /\ last.quizState = CLOSING /\ emits = <<>>

----------------------------------------------------------------------------
(* Question selection *)

NoDuplicates(list) == \A i, j \in DOMAIN list : i # j => list[i] # list[j]

\* C11: after a load that succeeded with N > 0 questions, the first N
\* getRandomQuestion calls return pairwise distinct questions, and once N
\* have been drawn every question of the bank has been returned exactly once.
C11_DistinctDraws ==
  (qdm.returned /\ Len(qdm.drawn) <= Len(qdm.quizData)) =>
    /\ NoDuplicates(qdm.drawn)
    /\ Len(qdm.drawn) = Len(qdm.quizData) => Range(qdm.drawn) = Range(qdm.quizData)

C11_Witness ==
  qdm.returned /\ Len(qdm.quizData) = 3 /\ Len(qdm.drawn) = 3

\* C12: after a successful load of N > 0 questions every getRandomQuestion
\* call returns a question of the bank, never undefined; the k-th call leaves
\* N - 1 - ((k - 1) % N) questions in the pool, so the call after the N-th
\* draw refills the pool and leaves N - 1.
C12_NeverUndefined ==
  qdm.returned =>
    /\ \A i \in DOMAIN qdm.drawn : qdm.drawn[i] \in Range(qdm.quizData)
    /\ Len(qdm.drawn) > 0 =>
         Len(qdm.availableQuestions) =
           Len(qdm.quizData) - 1 - ((Len(qdm.drawn) - 1) % Len(qdm.quizData))

C12_Witness ==
  /\ qdm.returned /\ Len(qdm.quizData) = 3 /\ Len(qdm.drawn) = 4
  /\ Len(qdm.availableQuestions) = 2

\* C13: every question in availableQuestions is a question of the current
\* quizData, whatever load and getRandomQuestion calls were made.
C13_PoolSubsetOfBank ==
  Range(qdm.availableQuestions) \subseteq Range(qdm.quizData)

\* C14: with a filtered bank of at least two questions, two consecutive
\* QuizScene launches of one run show different questions.
C14_ShownWithoutReplacement ==
  (Len(shown) = 2 /\ Len(quiz.quizData) >= 2) => shown[1] # shown[2]

----------------------------------------------------------------------------
(* Wandering within bounds *)

\* WanderController.update has just run on an enemy whose body is enabled
WanderUpdated == wander.phase = "step" /\ wander.enable

\* the enemy's rectangle when the latest update() began
boundsBefore == getBounds([wander EXCEPT !.x = wander.px, !.y = wander.py])

\* C15: after every update() call the enemy's full bounding box lies within
\* bounds.
C15_BoxWithinBounds ==
  WanderUpdated =>
    LET b == getBounds(wander)
    IN /\ bounds.left <= b.left /\ b.right <= bounds.right
       /\ bounds.top <= b.top /\ b.bottom <= bounds.bottom

\* C16: after an update() that found the enemy beyond bounds.right the
\* enemy's x is at most bounds.right and its horizontal velocity is negative;
\* beyond the left, top and bottom edges the velocity points inward as well.
C16_ClampedAndReflected ==
  WanderUpdated =>
    /\ boundsBefore.right > bounds.right => (wander.x <= bounds.right /\ wander.vx < 0)
    /\ boundsBefore.left < bounds.left => wander.vx > 0
    /\ boundsBefore.top < bounds.top => wander.vy > 0
    /\ boundsBefore.bottom > bounds.bottom => wander.vy < 0

\* the last step emitted 'enemy-collided' with payload (player, enemy e)
EnemyCollided(e) ==
  \E i \in DOMAIN emits :
    emits[i] = [name |-> "enemy-collided", a |-> "player", b |-> ToString(e)]

Detached == [Here EXCEPT !.game.listening = FALSE]

\* the last step emitted event name exactly once, with the object as payload
EmittedOnce(name, object) ==
  /\ CountEmits(name) = 1
  /\ \E i \in DOMAIN emits : emits[i] = [name |-> name, a |-> object, b |-> ""]

\* C18: a coin, heart, key or castle overlap callback emits exactly one event
\* of its kind carrying the object, whatever the player's state, and
\* CollisionSystem itself (its listeners set aside) changes nothing else.
C18_UnconditionalDispatch ==
  /\ last.op = "overlapCoin"   => EmittedOnce("coin-collected", ToString(last.n))
  /\ last.op = "overlapHeart"  => EmittedOnce("heart-collected", ToString(last.n))
  /\ last.op = "overlapKey"    => EmittedOnce("key-collected", "key")
  /\ last.op = "overlapCastle" => EmittedOnce("castle-collided", "castle")
  /\ \A c \in Coins :
       handlePlayerCoinCollision(Detached, c)
         = emit(Detached, "coin-collected", ToString(c), "")
  /\ \A h \in Hearts :
       handlePlayerHeartCollision(Detached, h)
         = emit(Detached, "heart-collected", ToString(h), "")
  /\ handlePlayerKeyCollision(Detached) = emit(Detached, "key-collected", "key", "")
  /\ handlePlayerCastleCollision(Detached) = emit(Detached, "castle-collided", "castle", "")

C18_Witness ==
  /\ last.op = "overlapKey" /\ last.state = INVINCIBLE
  /\ EmittedOnce("key-collected", "key")
  /\ game.hasKey

\* the scene manager has been asked to start ClearScene
ClearQueued ==
  \E i \in DOMAIN queue : queue[i].op = "start" /\ queue[i].key = "ClearScene"

\* C19: ClearScene is started only by a handled 'castle-collided' that finds
\* hasKey true; hasKey turns true only by a handled 'key-collected'; it is
\* false after every init; so the stage is cleared only with the key of the
\* run collected.
C19_ClearOnlyWithKey ==
  /\ [][(~ClearQueued /\ ClearQueued')
         => (game.hasKey /\ last'.op = "overlapCastle"
             /\ EmittedOnce("castle-collided", "castle")')]_vars
  /\ [][(~game.hasKey /\ game'.hasKey)
         => (last'.op = "overlapKey" /\ EmittedOnce("key-collected", "key")')]_vars
  /\ [](last.op = "createPlayer" => ~game.hasKey)
  /\ []((ClearQueued \/ game.endScene = "ClearScene")
          => (game.hasKey /\ ~game.key.active))

C19_Witness ==
  game.endScene = "ClearScene" /\ game.status = "stopped" /\ game.hasKey

\* the last step entered INVINCIBLE through transitionToState
EnteredInvincible ==
  /\ last.op = "transitionToState" /\ last.s = INVINCIBLE
  /\ last.state # INVINCIBLE /\ player.state = INVINCIBLE

\* C20: entering INVINCIBLE starts a timer of data.duration, 3000 ms without
\* one; while the scene runs and its clock advances, an INVINCIBLE player
\* always has that timer pending and eventually stops being INVINCIBLE (back
\* to NORMAL when the timer fires, or DEAD before that).
C20_InvincibleEnds ==
  /\ [](EnteredInvincible =>
          player.invincibleTimer = IF last.n # 0 THEN last.n ELSE INVINCIBILITY_DURATION)
  /\ []((player.state = INVINCIBLE /\ game.status = "running")
          => player.invincibleTimer > 0)
  /\ [][(player.state = INVINCIBLE /\ player'.state # INVINCIBLE /\ last'.op = "tick")
         => player'.state = NORMAL]_vars
  /\ (player.state = INVINCIBLE)
       ~> (player.state # INVINCIBLE \/ game.status = "stopped")

C20_Witness ==
  /\ last.op = "tick" /\ last.state = INVINCIBLE /\ player.state = NORMAL
  /\ player.invincibleTimer = 0
  /\ \E i \in DOMAIN emits :
       emits[i] = [name |-> "state-changed", a |-> NORMAL, b |-> INVINCIBLE]

\* number of invincibility timer events pending on the scene clock
PendingTimers ==
  Len(player.orphans) + (IF player.invincibleTimer > 0 THEN 1 ELSE 0)

\* C21: an invincibility timer is pending only while the player is INVINCIBLE,
\* and never more than one: leaving INVINCIBLE by any route (transitionToState,
\* initialize, destroy) leaves no timer behind to fire later.
C21_TimerOnlyWhileInvincible ==
  /\ PendingTimers <= 1
  /\ PendingTimers > 0 => player.state = INVINCIBLE

\* C22: a transitionToState to a state other than the current one emits
\* exactly one 'state-changed' carrying (newState, oldState), the state being
\* already updated, for every target state, with or without a physics body.
C22_AlwaysNotifies ==
  (last.op = "transitionToState" /\ last.s # last.state)
    => /\ player.state = last.s
       /\ CountEmits("state-changed") = 1
       /\ \E i \in DOMAIN emits :
            emits[i] = [name |-> "state-changed", a |-> last.s, b |-> last.state]

----------------------------------------------------------------------------
(* The quiz encounter *)

\* position of a QuizState along LOADING, QUESTION, RESULT, CLOSING
Rank(st) ==
  CASE st = LOADING -> 0 [] st = QUESTION -> 1 [] st = RESULT -> 2 [] st = CLOSING -> 3

\* the last step carried out a queued launch of QuizScene (init, create)
Launched == last.op = "processQueue" /\ last.s = "QuizScene"

\* the step is one pointer press on a choice text: the text's handler confirms
\* (RESULT), then the scene's one-shot 'pointerdown' listener, registered by
\* that confirmation, closes (CLOSING)
ConfirmThenClose ==
  \E t \in 1..MaxChoices :
    /\ last'.op = "quizPointer" /\ last'.n = t
    /\ onChoicePointerDown(Here, t - 1).quiz.currentState = RESULT
    /\ quiz' = onScenePointerDown(onChoicePointerDown(Here, t - 1)).quiz

\* C23: between a launch and the shutdown that ends it, currentState stays or
\* moves forward along LOADING, QUESTION, RESULT, CLOSING one state at a time
\* (never back, from QUESTION to CLOSING only through RESULT), and an input
\* met in CLOSING leaves it CLOSING; a launch starts in LOADING or QUESTION.
C23_ForwardOnly ==
  /\ [][(quiz.status = "running" /\ quiz'.status = "running" /\ ~Launched')
          => \/ quiz'.currentState = quiz.currentState
             \/ Rank(quiz'.currentState) = Rank(quiz.currentState) + 1
             \/ /\ quiz.currentState = QUESTION /\ quiz'.currentState = CLOSING
                /\ ConfirmThenClose]_vars
  /\ [][(quiz.currentState = CLOSING /\ last'.op \in QuizInput)
          => quiz'.currentState = CLOSING]_vars
  /\ []((Launched /\ quiz.status = "running") => quiz.currentState \in {LOADING, QUESTION})

C23_Witness ==
  /\ last.op \in QuizInput /\ last.quizState = RESULT
  /\ quiz.status = "running" /\ quiz.currentState = CLOSING

\* the selected choice is, as a string, the answer of the current question
SelectedIsAnswer ==
  choiceAt(quiz.currentQuestion, quiz.selectedIndex) = Questions[quiz.currentQuestion].answer

\* the quiz has been answered in this launch
Answered ==
  quiz.status = "running" /\ quiz.currentState \in {RESULT, CLOSING} /\ quiz.currentQuestion # 0

\* C24: once the answer is confirmed, isCorrect is true exactly when the choice
\* at selectedIndex equals the question's answer; no input after confirmation
\* changes the selection or isCorrect; and the boolean a close emits with
\* 'quiz-completed' is that value.
C24_ResultIsExactMatch ==
  /\ [](Answered => (quiz.isCorrect <=> SelectedIsAnswer))
  /\ [][(Answered /\ last'.op \in QuizInput)
          => (quiz'.selectedIndex = quiz.selectedIndex /\ quiz'.isCorrect = quiz.isCorrect)]_vars
  /\ []((last.op \in QuizInput /\ CountEmits("quiz-completed") > 0)
          => /\ Answered
             /\ \A i \in DOMAIN emits :
                  emits[i].name = "quiz-completed" => emits[i].a = BoolStr(SelectedIsAnswer))

C24_Witness ==
  /\ last.op = "quizKey" /\ last.quizState = RESULT
  /\ QuizCompleted(TRUE)
  /\ quiz.selectedIndex = 1 /\ quiz.userAnswer = "4"

\* GameScene handled a 'quiz-completed' in the last step
ResultApplied == CountEmits("quiz-completed") > 0 /\ game.listening

\* C25: while an encounter is open (currentEnemy set by handleEnemyCollision,
\* cleared by handleQuizResult) the player's body and the encountered enemy's
\* body are disabled; a disabled player body or enemy body is enabled again
\* only by the step in which handleQuizResult applies the result.
C25_BodiesOffDuringQuiz ==
  /\ [](game.currentEnemy # 0
          => (~player.bodyEnable /\ ~game.enemies[game.currentEnemy].bodyEnable))
  /\ [][(~player.bodyEnable /\ player'.bodyEnable /\ last'.op # "createPlayer")
          => (game.currentEnemy # 0 /\ game'.currentEnemy = 0 /\ ResultApplied')]_vars
  /\ [][\A e \in Enemies :
          (~game.enemies[e].bodyEnable /\ game'.enemies[e].bodyEnable
             /\ last'.op # "createPlayer")
            => (game.currentEnemy = e /\ game'.currentEnemy = 0 /\ ResultApplied')]_vars

C25_Witness ==
  /\ ResultApplied /\ QuizCompleted(FALSE) /\ last.quizState = RESULT
  /\ game.currentEnemy = 0 /\ player.bodyEnable
  /\ \E e, d \in Enemies : game.enemies[e].bodyEnable /\ ~game.enemies[d].exists

\* C26: whenever QuizScene is running in QUESTION or RESULT, GameScene is
\* paused (resident, its update loop, physics and timers at rest).
C26_GamePausedDuringQuiz ==
  (quiz.status = "running" /\ quiz.currentState \in {QUESTION, RESULT})
    => game.status = "paused"

----------------------------------------------------------------------------
(* Player.heal over all integers *)

\* C27: heal(amount) leaves health = health + amount clamped to
\* [0, maxHealth], for every integer amount, and leaves the state alone.
C27_HealClampsBothEnds ==
  last.op = "heal"
    => /\ player.health = Max(0, Min(last.health + last.n, player.maxHealth))
       /\ player.state = last.state

----------------------------------------------------------------------------
(* Frame conditions *)

\* C28: transitionToState(s) with s the current state changes nothing and
\* emits nothing; in particular the pending invincibility timer keeps its
\* remaining time.
C28_SameStateNoOp ==
  [][(last'.op = "transitionToState" /\ last'.s = player.state)
       => /\ player' = player
          /\ emits' = <<>>
          /\ UNCHANGED <<game, quiz, queue>>]_vars

C28_Witness ==
  /\ last.op = "transitionToState" /\ last.s = INVINCIBLE /\ last.state = INVINCIBLE
  /\ last.n # 0
  /\ player.invincibleTimer > 0 /\ player.invincibleTimer < last.n
  /\ emits = <<>>

\* the last step was an update() of the enemy's controller
PatrolUpdated == patrol.ai = "patrol" /\ patrol.phase = "step"
WanderUpdateDone == patrol.ai = "wander" /\ wander.phase = "step"

\* C29: an update() of either controller for an enemy whose body is missing
\* or disabled leaves the enemy's velocity and position and the controller's
\* state (countdown timer, patrol direction) as they were.
C29_DisabledBodyNoOp ==
  /\ [][(WanderUpdateDone' /\ ~wander.enable)
          => wander' = [wander EXCEPT !.phase = "step", !.px = wander.x, !.py = wander.y]]_vars
  /\ [][(PatrolUpdated' /\ ~patrol.enable)
          => patrol' = [patrol EXCEPT !.phase = "step", !.px = patrol.x, !.py = patrol.y,
                                      !.pdirection = patrol.direction]]_vars

C29_Witness ==
  /\ PatrolUpdated /\ ~patrol.enable
  /\ patrol.x >= PatrolRange /\ patrol.direction = 1 /\ patrol.vx = ENEMY_SPEED

\* the enemy's coordinate on the patrol axis when the latest update() began
patrolCoordinate == IF patrol.axis = "horizontal" THEN patrol.px ELSE patrol.py
patrolVelocity   == IF patrol.axis = "horizontal" THEN patrol.vx ELSE patrol.vy

\* C30: after an update() on an enabled enemy, direction is +1 if the enemy
\* was at or below initialPosition - range, -1 if at or above
\* initialPosition + range, else what it was; it is -1 or +1; and the velocity
\* on the patrol axis is speed * direction.
C30_PatrolTurns ==
  (PatrolUpdated /\ patrol.enable) =>
    /\ patrolCoordinate <= 0 - PatrolRange => patrol.direction = 1
    /\ patrolCoordinate >= PatrolRange => patrol.direction = 0 - 1
    /\ (patrolCoordinate > 0 - PatrolRange /\ patrolCoordinate < PatrolRange)
         => patrol.direction = patrol.pdirection
    /\ patrol.direction \in Directions
    /\ patrolVelocity = ENEMY_SPEED * patrol.direction

C30_Witness ==
  /\ PatrolUpdated /\ patrol.enable
  /\ patrolCoordinate <= 0 - PatrolRange
  /\ patrol.pdirection = 0 - 1 /\ patrol.direction = 1
  /\ patrolVelocity = ENEMY_SPEED

----------------------------------------------------------------------------
(* Input handling of QuizScene *)

\* C31: in RESULT no handler of QUESTION is registered any more, and once
\* closeQuiz has run (CLOSING) no handler is registered that calls closeQuiz
\* or confirmAnswer, neither on the keyboard nor on the pointer.
C31_HandlersDeregistered ==
  /\ (quiz.status = "running" /\ quiz.currentState = RESULT)
       => \A k \in DOMAIN quiz.keyHandlers : quiz.keyHandlers[k] = "close"
  /\ (quiz.status = "running" /\ quiz.currentState = CLOSING)
       => (quiz.keyHandlers = noHandlers /\ ~quiz.pointerOnce)

\* C32: confirmAnswer invoked again for a question already confirmed, directly
\* or through a choice text's handler, changes nothing: currentState,
\* userAnswer, isCorrect and the registered handlers stay as they are; in
\* QUESTION a second invocation adds nothing to the first.
C32_ConfirmOnce ==
  /\ Answered
       => /\ confirmAnswer(Here) = Here
          /\ \A i \in 0..(MaxChoices - 1) : onChoicePointerDown(Here, i) = Here
  /\ (quiz.status = "running" /\ quiz.currentState = QUESTION)
       => confirmAnswer(confirmAnswer(Here)) = confirmAnswer(Here)

C32_Witness ==
  /\ Answered /\ quiz.currentState = CLOSING /\ quiz.inputLocked
  /\ ~quiz.pointerOnce /\ quiz.userAnswer = "x"

----------------------------------------------------------------------------
(* Loading the bank *)

\* the questions of items a load with the given category is to keep, in order
Kept(items, category) ==
  SelectSeq(items, LAMBDA q :
    \/ category = ""
    \/ Questions[q].category = category
    \/ (category = "general" /\ Questions[q].category = ""))

\* C33: for every bank and category, QuizDataManager.load and
\* QuizScene.loadAndValidateQuizData keep exactly the questions of that
\* category (with the uncategorized ones for 'general', all of them without a
\* category) and report success exactly when some question is kept.
C33_CategoryFilter ==
  /\ \A c \in CacheValues, category \in Categories :
       LET M == load(qdm, c, category)
           K == IF c.kind = "array" THEN Kept(c.items, category) ELSE <<>>
       IN /\ M.returned <=> (K # <<>>)
          /\ c.kind = "array" => M.quizData = K
  /\ \A category \in Categories :
       LET K == IF cache.kind = "array" THEN Kept(cache.items, category) ELSE <<>>
       IN /\ loadAndValidateQuizData(category) <=> (K # <<>>)
          /\ filteredQuizData(category) = K
  /\ qdm.returned => qdm.quizData # <<>>

C33_Witness ==
  /\ qdm.returned /\ cache.kind = "array" /\ Len(cache.items) = 3
  /\ qdm.quizData = <<2, 3>> /\ qdm.drawn = <<>>


(* C35: one input event makes at most one QuizScene transition: the tap or   *)
(* the ENTER press that confirms an answer in QUESTION leaves the scene in   *)
(* RESULT, and never carries it on to CLOSING through the close handlers     *)
(* that confirmAnswer registers during that same event.                      *)
C35_OneTransitionPerInput ==
  (last.op \in QuizInput /\ last.quizState = QUESTION)
    => Rank(quiz.currentState) <= Rank(last.quizState) + 1


\* number of launches of QuizScene waiting in the scene manager's queue
QuizStartsQueued ==
  Cardinality({i \in DOMAIN queue : queue[i].op = "start" /\ queue[i].key = "QuizScene"})

\* a quiz has been launched and its 'quiz-completed' has not been emitted yet
QuizPending ==
  \/ QuizStartsQueued > 0
  \/ quiz.status = "running" /\ quiz.currentState \in {QUESTION, RESULT}

(* C36: GameScene launches QuizScene only for a NORMAL player touching an    *)
(* active enemy, and never while an earlier quiz is pending: from a launch   *)
(* to its 'quiz-completed', currentEnemy names the enemy of that launch, is  *)
(* not overwritten, and no second launch is queued, however many enemies     *)
(* overlap the player in the same tick.                                      *)
C36_OneQuizAtATime ==
  /\ [](QuizStartsQueued <= 1 /\ (QuizPending => game.currentEnemy # 0))
  /\ [][QuizStartsQueued' > QuizStartsQueued
          => /\ ~QuizPending
             /\ player.state = NORMAL
             /\ last'.op = "overlapEnemy"
             /\ game.enemies[last'.n].active
             /\ game'.currentEnemy = last'.n]_vars
  /\ [][(QuizPending /\ QuizPending') => game'.currentEnemy = game.currentEnemy]_vars

C36_Witness ==
  /\ last.op = "overlapEnemy" /\ QuizStartsQueued = 1
  /\ game.currentEnemy = last.n
  /\ \E d \in Enemies : d # last.n /\ game.enemies[d].active /\ game.enemies[d].bodyEnable


(* C37: once the player is DEAD, ClearScene is never started: a              *)
(* 'castle-collided' dispatched for a DEAD player holding the key, during    *)
(* the death animation, does not clear the stage.                            *)
C37_NoClearWhenDead ==
  player.state = DEAD => (~ClearQueued /\ game.endScene # "ClearScene")


(* C38: while QuizScene is in QUESTION, selectedIndex is an integer from 0   *)
(* up to the number of choices of the current question less one, after any   *)
(* UP, DOWN, numeric and pointer selections and for any number of choices,   *)
(* zero included; so the answer read at confirmation is one of the choices.  *)
C38_SelectedInRange ==
  /\ (quiz.status = "running" /\ quiz.currentState = QUESTION)
       => /\ quiz.selectedIndex # NaN
          /\ 0 <= quiz.selectedIndex
          /\ quiz.selectedIndex < Len(Questions[quiz.currentQuestion].choices)
  /\ Answered
       => \E i \in DOMAIN Questions[quiz.currentQuestion].choices :
            quiz.userAnswer = Questions[quiz.currentQuestion].choices[i]


----------------------------------------------------------------------------
(* The patrol run *)

\* the enemy's coordinate on the patrol axis, relative to initialPosition
patrolPosition == IF patrol.axis = "horizontal" THEN patrol.x ELSE patrol.y

\* speed * delta: the movement of one frame
patrolStride == (ENEMY_SPEED * PatrolDeltaMs) \div 1000

(* C39: a patrolling enemy that starts at initialPosition, moved by          *)
(* velocity * delta between updates, keeps its coordinate on the patrol axis *)
(* within initialPosition - range - speed*delta and initialPosition + range  *)
(* + speed*delta, for either initial direction: it passes an extreme by at   *)
(* most one frame's movement and the next update turns it back.              *)
C39_PatrolStaysInRange ==
  /\ patrolPosition >= 0 - PatrolRange - patrolStride
  /\ patrolPosition <= PatrolRange + patrolStride
  /\ (PatrolUpdated /\ patrol.enable /\ patrolPosition >= PatrolRange)
       => patrolVelocity = 0 - ENEMY_SPEED
  /\ (PatrolUpdated /\ patrol.enable /\ patrolPosition <= 0 - PatrolRange)
       => patrolVelocity = ENEMY_SPEED

C39_Witness ==
  /\ PatrolUpdated /\ patrol.enable
  /\ patrolPosition > PatrolRange
  /\ patrol.pdirection = 1 /\ patrol.direction = 0 - 1


----------------------------------------------------------------------------
(* The two overlays of GameScene *)

\* number of launches of PauseOverlayScene waiting in the scene manager's queue
PauseStartsQueued ==
  Cardinality({i \in DOMAIN queue :
                 queue[i].op = "start" /\ queue[i].key = "PauseOverlayScene"})

\* PauseOverlayScene is launched and none of its actions has been taken yet
PausePending ==
  \/ PauseStartsQueued > 0
  \/ /\ game.pauseOverlay = "running"
     /\ \A i \in DOMAIN queue :
          ~(queue[i].op = "stop" /\ queue[i].key = "PauseOverlayScene")

\* the step resumed GameScene
Resumed == game.status = "paused" /\ game'.status = "running"

(* C34: QuizScene and PauseOverlayScene are never both launched over the     *)
(* same GameScene: when ESC and an enemy overlap fall in the same tick, in   *)
(* either order, at most one overlay is launched, and GameScene is never     *)
(* resumed by one overlay (the pause overlay's 'continue', or                *)
(* handleQuizResult) while the other is still active.                        *)
C34_OneOverlay ==
  /\ [](~(QuizPending /\ PausePending))
  /\ [](~(quiz.status = "running" /\ game.pauseOverlay = "running"))
  /\ [][QuizStartsQueued' > QuizStartsQueued => PauseStartsQueued' = 0]_vars
  /\ [][PauseStartsQueued' > PauseStartsQueued => QuizStartsQueued' = 0]_vars
  /\ [][(Resumed /\ last'.op = "pauseKey") => ~QuizPending]_vars
  /\ [][(Resumed /\ CountEmits("quiz-completed")' > 0) => ~PausePending]_vars

C34_Witness ==
  /\ last.op = "escKey" /\ last.state = NORMAL
  /\ PauseStartsQueued = 1 /\ QuizStartsQueued = 0 /\ game.status = "paused"
  /\ \E e \in Enemies : game.enemies[e].active /\ game.enemies[e].bodyEnable
  /\ \E d \in Enemies : ~game.enemies[d].exists

====
